---- MODULE Spec2Model ----
(***************************************************************************)
(* Golden-reference generator and result checker for the dilated causal    *)
(* 1-D convolution hardware (python/generate_test_vectors.py,              *)
(* python/quick_test.py, python/verify_results.py).                        *)
(*                                                                         *)
(* Numbers.  A Python float v is carried as an integer numerator over a    *)
(* denominator that the context fixes; all the floats that occur are       *)
(* dyadic or are only multiplied by 1, 0 or a power of two, so the         *)
(* arithmetic below is exact where the code's is.                          *)
(***************************************************************************)
EXTENDS Integers, Sequences, FiniteSets, TLC

(***************************************************************************)
(* Program constants                                                       *)
(***************************************************************************)
FIXED_POINT_BITS == 16
FIXED_POINT_FRAC == 8
\* quick_test(): seq_length, in_channels, out_channels, kernel_size, and the
\* denominator of its input values (t + c) * 0.1
QT_SEQ_LENGTH == 8
QT_IN_CHANNELS == 4
QT_OUT_CHANNELS == 4
QT_KERNEL_SIZE == 3
QT_DEN == 10
\* VerificationChecker defaults and the report's cap on detailed errors
DEFAULT_TOLERANCE_LSB == 2
CHECKER_FRAC_BITS == 8
REPORT_LIMIT == 100
\* the stand-in for NumPy's global generator: a full-period congruential
\* generator, and the denominator of the floats it yields
RNG_MOD == 16
RNG_MUL == 5
RNG_INC == 3
DRAW_DEN == 2
\* the dilation generate_streaming_test hands to compute_conv1d_manual
STREAMING_DILATION == 1

(***************************************************************************)
(* Bounds of the model                                                     *)
(***************************************************************************)
\* binary digits an encoder input carries below one LSB
SubBits == 2
\* half-width, in LSBs, of the input windows around 0 and the range ends
Win == 3
\* longest input, widest kernel and largest dilation of a convolution call
MaxT == 3
MaxK == 3
MaxDil == 2
\* methods called on one checker
MaxCalls == 2
\* samples of an RTL trace, samples of a golden record, largest cycle tag
MaxRtl == 2
MaxGolden == 1
MaxCycle == 1
\* generator parameters: depth, kernel_size, channel counts, seq_length;
\* entropy states a process can start from
MaxDepth == 2
MaxKernel == 2
MaxCh == 2
MaxSeq == 2
MaxEntropy == 3

Abs(a) == IF a < 0 THEN -a ELSE a
Max(a, b) == IF a >= b THEN a ELSE b
Min(a, b) == IF a <= b THEN a ELSE b

MinRaw == -(2 ^ (FIXED_POINT_BITS - 1))
MaxRaw == 2 ^ (FIXED_POINT_BITS - 1) - 1

(***************************************************************************)
(* FixedPointCodec                                                         *)
(***************************************************************************)
\* round with ties away from zero (what Python 2's round did)
round_half_away(num, den) ==
  LET q == num \div den
      r == num % den
  IN  IF 2 * r < den THEN q
      ELSE IF 2 * r > den THEN q + 1
      ELSE IF num >= 0 THEN q + 1 ELSE q

\* Python 3 round(): nearest integer to num/den (den > 0), a tie going to
\* the even neighbour
round(num, den) ==
  LET q == num \div den
      r == num % den
  IN  IF 2 * r < den THEN q
      ELSE IF 2 * r > den THEN q + 1
      ELSE IF q % 2 = 0 THEN q ELSE q + 1

\* float_to_fixed(val, frac_bits) for val = num/den: int(round(val * 2**frac_bits))
\* The result is a Python int: nothing narrows it to FIXED_POINT_BITS.
float_to_fixed(num, den, frac_bits) == round(num * (2 ^ frac_bits), den)

\* bit 15 of a Python int (two's complement of unbounded width)
SignBit(value) == (value \div (2 ^ 15)) % 2 = 1

\* VerificationChecker.fixed_to_float(value) for an int value, and
\* quick_test.fixed_to_float: the float returned is result / 2**frac_bits
fixed_to_float(value) == IF SignBit(value) THEN value - 2 ^ 16 ELSE value

(***************************************************************************)
(* DilatedCausalConv1D                                                     *)
(*                                                                         *)
(* A tensor [T, C] is a sequence of T rows, each a sequence of C numbers;  *)
(* a kernel [K, Cin, Cout] is a sequence of K such matrices.  Python's     *)
(* index i is position i + 1.  bias = None is the empty sequence.          *)
(* Inputs are numerators over one denominator and kernels are integers,    *)
(* so every product and sum is exact in float32 as it is here.             *)
(***************************************************************************)
None == << >>

Zeros(n) == [i \in 1..n |-> 0]

\* np.pad padding one row fewer than asked
PadLeftShort(input_seq, pad_amount, channels) ==
  [i \in 1..(pad_amount - 1) |-> Zeros(channels)] \o input_seq

\* np.pad(input_seq, ((pad_amount, 0), (0, 0)), mode='constant')
PadLeft(input_seq, pad_amount, channels) ==
  [i \in 1..pad_amount |-> Zeros(channels)] \o input_seq

RECURSIVE SumOver(_, _, _)
\* sum of f[i] for i in lo..hi
SumOver(f, lo, hi) == IF lo > hi THEN 0 ELSE f[lo] + SumOver(f, lo + 1, hi)

\* the accumulator of one output element: lines 167-176
ConvAcc(padded_input, kernel, bias, dilation, input_channels, t, out_c) ==
  LET kernel_size == Len(kernel)
      tap == [k \in 0..(kernel_size - 1) |->
                LET pos == t + k * dilation
                IN  IF pos < Len(padded_input)
                    THEN SumOver([in_c \in 0..(input_channels - 1) |->
                                    padded_input[pos + 1][in_c + 1]
                                      * kernel[k + 1][in_c + 1][out_c + 1]],
                                 0, input_channels - 1)
                    ELSE 0]
  IN  (IF bias # None THEN bias[out_c + 1] ELSE 0) + SumOver(tap, 0, kernel_size - 1)

\* the pairs (t, k) of the loops of lines 165-170 whose tap the guard
\* `pos < padded_input.shape[0]' of line 172 leaves out
SkippedTaps(padded_rows, kernel_size, dilation, output_length) ==
  { tk \in (0..(output_length - 1)) \X (0..(kernel_size - 1)) :
      ~(tk[1] + tk[2] * dilation < padded_rows) }

\* compute_conv1d_manual(input_seq, kernel, bias, dilation, padding), with
\* input_channels and output_channels the second dimensions of the shapes.
\* np.zeros raises ValueError for a negative output_length.  The result
\* also tells the rows of padded_input and the taps the guard left out.
compute_conv1d_manual(input_seq, input_channels, kernel, output_channels, bias, dilation, padding) ==
  LET seq_length == Len(input_seq)
      kernel_size == Len(kernel)
      effective_kernel_size == (kernel_size - 1) * dilation + 1
      output_length ==
        IF padding = "causal" THEN seq_length
        ELSE IF padding = "valid" THEN seq_length - effective_kernel_size + 1
        ELSE seq_length
      padded_input ==
        IF padding = "causal"
        THEN PadLeft(input_seq, effective_kernel_size - 1, input_channels)
        ELSE input_seq
  IN  IF output_length < 0
      THEN [raised |-> TRUE, output |-> << >>, padded_rows |-> Len(padded_input),
            skipped |-> {}]
      ELSE [raised |-> FALSE,
            output |-> [t1 \in 1..output_length |->
                          [o1 \in 1..output_channels |->
                             ConvAcc(padded_input, kernel, bias, dilation,
                                     input_channels, t1 - 1, o1 - 1)]],
            padded_rows |-> Len(padded_input),
            skipped |-> SkippedTaps(Len(padded_input), kernel_size, dilation,
                                    output_length)]

\* the inline causal convolution of quick_test(): lines 42-50
quick_test_conv(input_seq, in_channels, kernel, out_channels) ==
  LET seq_length == Len(input_seq)
      kernel_size == Len(kernel)
      acc(t, o) ==
        SumOver([k \in 0..(kernel_size - 1) |->
                   IF t >= k
                   THEN SumOver([i \in 0..(in_channels - 1) |->
                                   input_seq[t - k + 1][i + 1] * kernel[k + 1][i + 1][o + 1]],
                                0, in_channels - 1)
                   ELSE 0],
                0, kernel_size - 1)
  IN  [t1 \in 1..seq_length |-> [o1 \in 1..out_channels |-> acc(t1 - 1, o1 - 1)]]

\* float_to_fixed over every element of a [T, C] tensor of numerators over den
FixedOf(m, den) ==
  [t \in 1..Len(m) |-> [c \in 1..Len(m[t]) |-> float_to_fixed(m[t][c], den, FIXED_POINT_FRAC)]]

(***************************************************************************)
(* ResultComparator: VerificationChecker                                   *)
(*                                                                         *)
(* Raw values are Python ints.  A decoded float is carried as its          *)
(* numerator over 2**frac_bits, so diff / lsb_value is the difference of   *)
(* the numerators (both divisions are by a power of two and exact).        *)
(* An operator takes the checker's errors list and returns the new one     *)
(* with its return value.                                                  *)
(***************************************************************************)
\* compare_values(rtl_value, golden_value, channel_idx, sample_idx): with `<'
\* in place of `<=' at line 39
compare_values_strict(errs, tolerance, rtl_value, golden_value, channel_idx, sample_idx) ==
  LET rtl_float == fixed_to_float(rtl_value)
      golden_float == fixed_to_float(golden_value)
      diff == Abs(rtl_float - golden_float)
      diff_lsb == diff
      passed == diff_lsb < tolerance
      error_info == [passed |-> passed, channel |-> channel_idx, sample |-> sample_idx,
                     rtl_fixed |-> rtl_value, golden_fixed |-> golden_value,
                     rtl_float |-> rtl_float, golden_float |-> golden_float,
                     diff_float |-> diff, diff_lsb |-> diff_lsb]
  IN  [errors |-> IF ~passed THEN Append(errs, error_info) ELSE errs,
       ret |-> error_info]

\* compare_values(rtl_value, golden_value, channel_idx, sample_idx)
compare_values(errs, tolerance, rtl_value, golden_value, channel_idx, sample_idx) ==
  LET rtl_float == fixed_to_float(rtl_value)
      golden_float == fixed_to_float(golden_value)
      diff == Abs(rtl_float - golden_float)
      diff_lsb == diff
      passed == diff_lsb <= tolerance
      error_info == [passed |-> passed, channel |-> channel_idx, sample |-> sample_idx,
                     rtl_fixed |-> rtl_value, golden_fixed |-> golden_value,
                     rtl_float |-> rtl_float, golden_float |-> golden_float,
                     diff_float |-> diff, diff_lsb |-> diff_lsb]
  IN  [errors |-> IF ~passed THEN Append(errs, error_info) ELSE errs,
       ret |-> error_info]

\* the loop of compare_vectors recording only the first failing pair
CompareElementsFirstFailure(errs, tolerance, rtl_vector, golden_vector, sample_idx, ch_idx) ==
  LET results == [c \in 1..(Len(rtl_vector) - ch_idx) |->
                    compare_values(<< >>, tolerance, rtl_vector[ch_idx + c],
                                   golden_vector[ch_idx + c], ch_idx + c - 1,
                                   sample_idx)]
      appended == SelectSeq(results, LAMBDA r : r.errors # << >>)
  IN  [errors |-> errs \o (IF appended = << >> THEN << >>
                           ELSE << appended[1].errors[1] >>),
       ret |-> \A c \in 1..Len(results) : results[c].ret.passed]

\* the loop of compare_vectors from channel ch_idx on (lines 69-74): every
\* pair is compared in order, each failure appends its record, the result
\* is the conjunction
CompareElements(errs, tolerance, rtl_vector, golden_vector, sample_idx, ch_idx) ==
  LET results == [c \in 1..(Len(rtl_vector) - ch_idx) |->
                    compare_values(<< >>, tolerance, rtl_vector[ch_idx + c],
                                   golden_vector[ch_idx + c], ch_idx + c - 1,
                                   sample_idx)]
      appended == SelectSeq(results, LAMBDA r : r.errors # << >>)
  IN  [errors |-> errs \o [c \in 1..Len(appended) |-> appended[c].errors[1]],
       ret |-> \A c \in 1..Len(results) : results[c].ret.passed]

\* compare_vectors with the length check returning True after recording
compare_vectors_lenient(errs, tolerance, rtl_vector, golden_vector, sample_idx) ==
  IF Len(rtl_vector) # Len(golden_vector)
  THEN [errors |-> Append(errs, [type |-> "dimension_mismatch",
                                 rtl_length |-> Len(rtl_vector),
                                 golden_length |-> Len(golden_vector)]),
        ret |-> TRUE]
  ELSE CompareElements(errs, tolerance, rtl_vector, golden_vector, sample_idx, 0)

\* compare_vectors(rtl_vector, golden_vector, sample_idx)
compare_vectors(errs, tolerance, rtl_vector, golden_vector, sample_idx) ==
  IF Len(rtl_vector) # Len(golden_vector)
  THEN [errors |-> Append(errs, [type |-> "dimension_mismatch",
                                 rtl_length |-> Len(rtl_vector),
                                 golden_length |-> Len(golden_vector)]),
        ret |-> FALSE]
  ELSE CompareElements(errs, tolerance, rtl_vector, golden_vector, sample_idx, 0)

NoCycle == -2

\* dict.get(key, default)
Get(d, key, default) == IF key \in DOMAIN d THEN d[key] ELSE default

\* lines 142-156: whether the record has one of the two known layouts
KnownGoldenFormat(golden_data) ==
  "streaming_samples" \in DOMAIN golden_data \/ "output_fixed" \in DOMAIN golden_data

\* lines 138-153: the golden samples of a record of a known layout
GoldenSamplesOf(golden_data) ==
  IF "streaming_samples" \in DOMAIN golden_data
  THEN golden_data.streaming_samples
  ELSE IF "output_fixed" \in DOMAIN golden_data
  THEN [idx \in 1..Len(golden_data.output_fixed) |->
          [cycle |-> idx - 1,
           expected_output_fixed |-> golden_data.output_fixed[idx],
           valid |-> TRUE]]
  ELSE << >>

\* lines 176-180: index (from 1) of the golden sample the search loop breaks
\* on, 0 when it ends without one.  NoCycle stands for the None that
\* gs.get('cycle') gives a sample without a cycle: it equals no RTL cycle.
FindGolden(golden_samples, rtl_cycle, samples_compared) ==
  LET hits == { g \in 1..Len(golden_samples) :
                  \/ Get(golden_samples[g], "cycle", NoCycle) = rtl_cycle
                  \/ samples_compared = Len(golden_samples) }
  IN  IF hits = {} THEN 0 ELSE CHOOSE g \in hits : \A h \in hits : g <= h

\* lines 176-183: the golden sample chosen for an RTL sample, 0 for None
SelectGolden(golden_samples, rtl_cycle, samples_compared) ==
  LET found == FindGolden(golden_samples, rtl_cycle, samples_compared)
  IN  IF found = 0 /\ samples_compared < Len(golden_samples)
      THEN samples_compared + 1
      ELSE found

RECURSIVE CompareSamples(_, _, _, _, _)
\* the loop of lines 171-208 from RTL sample i (from 1) on.  st carries
\* errors, samples_compared, sample_errors and, per RTL sample, what the
\* loop printed of it (trace): its cycle, samples_compared when it was
\* reached, the golden index it was compared with (0: skipped with the
\* "No golden sample" message) and the result of the comparison
CompareSamples(st, tolerance, rtl_samples, golden_samples, i) ==
  IF i > Len(rtl_samples) THEN st
  ELSE
    LET rtl_sample == rtl_samples[i]
        rtl_cycle == Get(rtl_sample, "cycle", -1)
        rtl_output == Get(rtl_sample, "output", << >>)
        sel == SelectGolden(golden_samples, rtl_cycle, st.samples_compared)
    IN  IF sel = 0
        THEN CompareSamples([st EXCEPT !.trace = Append(@, [rtl_cycle |-> rtl_cycle,
                                                           at |-> st.samples_compared,
                                                           golden |-> 0,
                                                           match |-> FALSE])],
                            tolerance, rtl_samples, golden_samples, i + 1)
        ELSE
          LET golden_sample == golden_samples[sel]
              golden_output == Get(golden_sample, "expected_output_fixed",
                                   Get(golden_sample, "output_fixed", << >>))
              cmp == compare_vectors(st.errors, tolerance, rtl_output, golden_output,
                                     st.samples_compared)
          IN  CompareSamples(
                [errors |-> cmp.errors,
                 warnings |-> st.warnings,
                 samples_compared |-> st.samples_compared + 1,
                 sample_errors |-> st.sample_errors + (IF cmp.ret THEN 0 ELSE 1),
                 trace |-> Append(st.trace, [rtl_cycle |-> rtl_cycle,
                                             at |-> st.samples_compared,
                                             golden |-> sel,
                                             match |-> cmp.ret])],
                tolerance, rtl_samples, golden_samples, i + 1)

\* compare_test_case starting its sample loop from an emptied error list
compare_test_case_reset(errs, warns, tolerance, rtl_results, golden_data) ==
  LET golden_samples == GoldenSamplesOf(golden_data)
      rtl_samples == Get(rtl_results, "samples", << >>)
      early == [ret |-> FALSE, errors |-> errs, warnings |-> warns, loop |-> FALSE,
                samples_compared |-> 0, sample_errors |-> 0, trace |-> << >>]
  IN  IF ~KnownGoldenFormat(golden_data) THEN early
      ELSE IF Len(rtl_samples) = 0 THEN early
      ELSE LET st == CompareSamples([errors |-> << >>, warnings |-> warns,
                                     samples_compared |-> 0, sample_errors |-> 0,
                                     trace |-> << >>],
                                    tolerance, rtl_samples, golden_samples, 1)
           IN  [ret |-> st.sample_errors = 0, errors |-> st.errors,
                warnings |-> st.warnings, loop |-> TRUE,
                samples_compared |-> st.samples_compared,
                sample_errors |-> st.sample_errors, trace |-> st.trace]

\* compare_test_case(rtl_results, golden_data).  loop tells whether the
\* sample loop was reached; the warnings list is never written.
compare_test_case(errs, warns, tolerance, rtl_results, golden_data) ==
  LET golden_samples == GoldenSamplesOf(golden_data)
      rtl_samples == Get(rtl_results, "samples", << >>)
      early == [ret |-> FALSE, errors |-> errs, warnings |-> warns, loop |-> FALSE,
                samples_compared |-> 0, sample_errors |-> 0, trace |-> << >>]
  IN  IF ~KnownGoldenFormat(golden_data) THEN early
      ELSE IF Len(rtl_samples) = 0 THEN early
      ELSE LET st == CompareSamples([errors |-> errs, warnings |-> warns,
                                     samples_compared |-> 0, sample_errors |-> 0,
                                     trace |-> << >>],
                                    tolerance, rtl_samples, golden_samples, 1)
           IN  [ret |-> st.sample_errors = 0, errors |-> st.errors,
                warnings |-> st.warnings, loop |-> TRUE,
                samples_compared |-> st.samples_compared,
                sample_errors |-> st.sample_errors, trace |-> st.trace]

\* generate_report() detailing every error
generate_report_unbounded(errs, warns, tolerance) ==
  [total_errors |-> Len(errs),
   total_warnings |-> Len(warns),
   tolerance |-> tolerance,
   details |-> errs,
   more |-> 0,
   warnings |-> warns]

\* generate_report(): what the report file shows of the checker
generate_report(errs, warns, tolerance) ==
  [total_errors |-> Len(errs),
   total_warnings |-> Len(warns),
   tolerance |-> tolerance,
   details |-> SubSeq(errs, 1, Min(Len(errs), REPORT_LIMIT)),
   more |-> Max(Len(errs) - REPORT_LIMIT, 0),
   warnings |-> warns]

(***************************************************************************)
(* TestVectorSuite: the randomised generators                              *)
(*                                                                         *)
(* np.random is the process-wide generator of NumPy; a process that never  *)
(* seeds it starts from operating-system entropy.  Its state is a number   *)
(* below RNG_MOD, a draw reads the state and advances it.  A drawn float   *)
(* (randn() already scaled by 0.1 or 0.01) is a numerator over DRAW_DEN.   *)
(* A float tensor is carried with its denominator: a convolution           *)
(* multiplies the input's by DRAW_DEN.  exp(x) - 1 of the ELU is taken to  *)
(* the nearest value of that grid by its Pade approximant 2x / (2 - x).    *)
(***************************************************************************)
RngNext(s) == (RNG_MUL * s + RNG_INC) % RNG_MOD

RECURSIVE RngSkip(_, _)
\* the state after n draws
RngSkip(s, n) == IF n = 0 THEN s ELSE RngSkip(RngNext(s), n - 1)

\* the i-th draw (from 0) out of state s
DrawAt(s, i) == (RngSkip(s, i) % 3) - 1

\* np.random.randn(rows, cols) * scale, drawn in row-major order
RandMatrix(s, rows, cols) ==
  [r \in 1..rows |-> [c \in 1..cols |-> DrawAt(s, (r - 1) * cols + (c - 1))]]

\* np.random.randn(kernel_size, cin, cout) * 0.1
RandKernel(s, kernel_size, cin, cout) ==
  [k \in 1..kernel_size |->
    [i \in 1..cin |-> [o \in 1..cout |-> DrawAt(s, ((k - 1) * cin + (i - 1)) * cout + (o - 1))]]]

\* np.random.randn(n) * 0.01
RandVector(s, n) == [i \in 1..n |-> DrawAt(s, i - 1)]

\* np.where(output > 0, output, np.exp(output) - 1) on a numerator over den
Elu(n, den) == IF n > 0 THEN n ELSE round(2 * n * den, 2 * den - n)

EluOf(m, den) == [t \in 1..Len(m) |-> [c \in 1..Len(m[t]) |-> Elu(m[t][c], den)]]

FixedVec(v, den) == [i \in 1..Len(v) |-> float_to_fixed(v[i], den, FIXED_POINT_FRAC)]
FixedKernel(k, den) == [i \in 1..Len(k) |-> FixedOf(k[i], den)]

\* one pass of the loop bodies at lines 208-225 and 236-251.  st carries
\* current_output (cur) with its denominator, the generator state and the
\* layers recorded so far
ConvLayer(st, conv_idx, dilation, kernel_size, filters) ==
  LET cin == Len(st.cur[1])
      kernel == RandKernel(st.rng, kernel_size, cin, filters)
      rng1 == RngSkip(st.rng, kernel_size * cin * filters)
      bias == RandVector(rng1, filters)
      rng2 == RngSkip(rng1, filters)
      den == st.den * DRAW_DEN
      conv == compute_conv1d_manual(st.cur, cin, kernel, filters,
                                    [o \in 1..filters |-> bias[o] * st.den],
                                    dilation, "causal")
      output == EluOf(conv.output, den)
  IN  [cur |-> output, den |-> den, rng |-> rng2,
       layers |-> Append(st.layers,
                         [conv_idx |-> conv_idx,
                          dilation |-> dilation,
                          input_shape |-> <<Len(st.cur), cin>>,
                          kernel_fixed |-> FixedKernel(kernel, DRAW_DEN),
                          bias_fixed |-> FixedVec(bias, DRAW_DEN),
                          output_fixed |-> FixedOf(output, den)])]

RECURSIVE LaterBlocks(_, _, _, _, _)
\* the loop of lines 232-251 from depth_idx on
LaterBlocks(st, depth_idx, depth, kernel_size, filters) ==
  IF depth_idx >= depth THEN st
  ELSE LET dilation == 2 ^ depth_idx
           c0 == ConvLayer(st, 0, dilation, kernel_size, filters)
           c1 == ConvLayer(c0, 1, dilation, kernel_size, filters)
       IN  LaterBlocks(c1, depth_idx + 1, depth, kernel_size, filters)

\* generate_tcn_block_test(depth, kernel_size, filters, input_dimension,
\* seq_length) run with the global generator in state s: the record it returns
\* and the state it leaves the generator in
generate_tcn_block_test(s, depth, kernel_size, filters, input_dimension, seq_length) ==
  LET input_seq == RandMatrix(s, seq_length, input_dimension)
      st0 == [cur |-> input_seq, den |-> DRAW_DEN,
              rng |-> RngSkip(s, seq_length * input_dimension), layers |-> << >>]
      f0 == ConvLayer(st0, 0, 1, kernel_size, filters)
      f1 == ConvLayer(f0, 1, 1, kernel_size, filters)
      res == IF input_dimension = filters
             THEN [f1 EXCEPT !.cur =
                     [t \in 1..seq_length |->
                        [c \in 1..filters |->
                           f1.cur[t][c] + input_seq[t][c] * (f1.den \div DRAW_DEN)]]]
             ELSE f1
      fin == LaterBlocks(res, 1, depth, kernel_size, filters)
  IN  [rng |-> fin.rng,
       test_case |->
         [name |-> "tcn_block",
          config |-> [depth |-> depth, kernel_size |-> kernel_size, filters |-> filters,
                      input_dimension |-> input_dimension, seq_length |-> seq_length],
          layers |-> fin.layers,
          final_output_fixed |-> FixedOf(fin.cur, fin.den),
          input_fixed |-> FixedOf(input_seq, DRAW_DEN)]]

\* the valid flag with `>' in place of `>=' at line 297
StreamingValidLate(t, kernel_size) == t > (kernel_size - 1)

\* line 297: 'valid': t >= (kernel_size - 1)
StreamingValid(t, kernel_size) == t >= (kernel_size - 1)

\* generate_streaming_test(seq_length, input_channels, kernel_size,
\* output_channels) run with the global generator in state s
generate_streaming_test(s, seq_length, input_channels, kernel_size, output_channels) ==
  LET input_seq == RandMatrix(s, seq_length, input_channels)
      rng1 == RngSkip(s, seq_length * input_channels)
      kernel == RandKernel(rng1, kernel_size, input_channels, output_channels)
      rng2 == RngSkip(rng1, kernel_size * input_channels * output_channels)
      bias == Zeros(output_channels)
      full_output == compute_conv1d_manual(input_seq, input_channels, kernel,
                                           output_channels, bias, STREAMING_DILATION,
                                           "causal").output
  IN  [rng |-> rng2,
       test_case |->
         [name |-> "streaming_test",
          config |-> [seq_length |-> seq_length, input_channels |-> input_channels,
                      output_channels |-> output_channels, kernel_size |-> kernel_size],
          kernel_fixed |-> FixedKernel(kernel, DRAW_DEN),
          bias_fixed |-> FixedVec(bias, DRAW_DEN),
          streaming_samples |->
            [t1 \in 1..seq_length |->
               [cycle |-> t1 - 1,
                input_fixed |-> FixedVec(input_seq[t1], DRAW_DEN),
                expected_output_fixed |-> FixedVec(full_output[t1], DRAW_DEN * DRAW_DEN),
                valid |-> StreamingValid(t1 - 1, kernel_size)]]]]

(***************************************************************************)
(* State                                                                   *)
(***************************************************************************)
VARIABLES
  cpc,      \* codec session: "idle", "encoded", "decoded"
  cx,       \* the float handed to float_to_fixed, as a numerator over CodecDen
  cenc,     \* the integer float_to_fixed returned (as stored in a record)
  cdec,     \* what fixed_to_float returned for cenc, in units of 2^-frac_bits
  vpc,      \* convolution session: "idle", "computed", "scenario", "quick_test"
  vcall,    \* arguments of the convolution: input, kernel, bias, dilation, padding
  vout,     \* its result: [raised, output], and what compute_conv1d_manual tells
  vfixed,   \* fixed-point forms of input and output, or None
  tolerance_lsb, frac_bits, errors, warnings,   \* the VerificationChecker
  calls,    \* methods called on the checker so far
  last,     \* the last method called, its arguments and its return value
  mpc,      \* main(): "start", "rtl_loaded", "golden_loaded", "compared", "exit"
  rtl_results, golden_data, passed,             \* main()'s locals
  cmp,      \* what compare_test_case printed: samples compared, mismatches, trace
  report,   \* the report file
  exit_status,
  np_random,      \* state of NumPy's global generator in this process
  test_vectors,   \* TemporalConvTestGenerator.test_vectors
  gen_log         \* the generator calls made: method, arguments, record returned

codecVars == <<cpc, cx, cenc, cdec>>
convVars == <<vpc, vcall, vout, vfixed>>
checkerVars == <<tolerance_lsb, frac_bits, errors, warnings>>
apiVars == <<calls, last>>
mainVars == <<mpc, rtl_results, golden_data, passed, cmp, report, exit_status>>

genVars == <<np_random, test_vectors, gen_log>>

vars == <<codecVars, convVars, checkerVars, apiVars, mainVars, genVars>>

(***************************************************************************)
(* Codec session                                                           *)
(***************************************************************************)
\* denominator of the encoder inputs: SubBits binary digits below one LSB
CodecDen == 2 ^ (FIXED_POINT_FRAC + SubBits)
SubLsb == 2 ^ SubBits

\* encoder inputs: windows around 0, the top and the bottom of the Q8.8 range
CodecInputs ==
  { a * SubLsb + d : a \in {0, MaxRaw, MinRaw}, d \in (-(Win * SubLsb))..(Win * SubLsb) }

\* x = n/CodecDen lies in the representable range [MinRaw, MaxRaw] * 2^-frac_bits
Representable(n) == MinRaw * SubLsb <= n /\ n <= MaxRaw * SubLsb

CodecInit == cpc = "idle" /\ cx = 0 /\ cenc = 0 /\ cdec = 0

\* float_to_fixed(x), the result stored in the golden record
Encode(n) ==
  /\ cpc' = "encoded"
  /\ cx' = n
  /\ cenc' = float_to_fixed(n, CodecDen, FIXED_POINT_FRAC)
  /\ cdec' = 0
  /\ UNCHANGED <<convVars, checkerVars, apiVars, mainVars, genVars>>

\* the comparator decodes the stored integer
Decode ==
  /\ cpc = "encoded"
  /\ cpc' = "decoded"
  /\ cdec' = fixed_to_float(cenc)
  /\ UNCHANGED <<cx, cenc>>
  /\ UNCHANGED <<convVars, checkerVars, apiVars, mainVars, genVars>>

CodecNext == (\E n \in CodecInputs : Encode(n)) \/ Decode

(***************************************************************************)
(* Convolution session                                                     *)
(***************************************************************************)
\* single-channel tensors of the generic call
InVals == {1, 2}
KerVals == {0, 1}
Paddings == {"causal", "valid", "same"}

\* quick_test(): input (t + c) * 0.1 as a numerator over QT_DEN, and the
\* kernel with kernel[0, i, i] = 1.0 only
QT_Input ==
  [t \in 1..QT_SEQ_LENGTH |-> [c \in 1..QT_IN_CHANNELS |-> (t - 1) + (c - 1)]]
QT_Kernel ==
  [k \in 1..QT_KERNEL_SIZE |->
    [i \in 1..QT_IN_CHANNELS |->
      [o \in 1..QT_OUT_CHANNELS |->
        IF k = 1 /\ i = o /\ i <= Min(QT_IN_CHANNELS, QT_OUT_CHANNELS) THEN 1 ELSE 0]]]

NoCall == [input |-> << >>, kernel |-> << >>, bias |-> None, dilation |-> 1,
           padding |-> "causal"]

ConvInit ==
  /\ vpc = "idle"
  /\ vcall = NoCall
  /\ vout = [raised |-> FALSE, output |-> << >>]
  /\ vfixed = None

\* compute_conv1d_manual on a [T, 1] input and a [K, 1, 1] kernel
Compute ==
  \E T \in 0..MaxT, K \in 1..MaxK, d \in 1..MaxDil, pad \in Paddings :
    \E inp \in [1..T -> InVals], ker \in [1..K -> KerVals], b \in {None, <<1>>} :
      LET input_seq == [t \in 1..T |-> <<inp[t]>>]
          kernel == [k \in 1..K |-> << <<ker[k]>> >>]
      IN  /\ vpc = "idle"
          /\ vpc' = "computed"
          /\ vcall' = [input |-> input_seq, kernel |-> kernel, bias |-> b,
                       dilation |-> d, padding |-> pad]
          /\ vout' = compute_conv1d_manual(input_seq, 1, kernel, 1, b, d, pad)
          /\ vfixed' = None
          /\ UNCHANGED <<codecVars, checkerVars, apiVars, mainVars, genVars>>

\* the reference convolution on the quick_test tensors, causal padding, and
\* the fixed-point encoding of input and output
ScenarioConv ==
  \E b \in {None, Zeros(QT_OUT_CHANNELS)} :
    LET res == compute_conv1d_manual(QT_Input, QT_IN_CHANNELS, QT_Kernel,
                                     QT_OUT_CHANNELS, b, 1, "causal")
    IN  /\ vpc = "idle"
        /\ vpc' = "scenario"
        /\ vcall' = [input |-> QT_Input, kernel |-> QT_Kernel, bias |-> b,
                     dilation |-> 1, padding |-> "causal"]
        /\ vout' = res
        /\ vfixed' = [input_fixed |-> FixedOf(QT_Input, QT_DEN),
                      output_fixed |-> FixedOf(res.output, QT_DEN)]
        /\ UNCHANGED <<codecVars, checkerVars, apiVars, mainVars, genVars>>

\* quick_test(): its own inline convolution, then the encoding
QuickTest ==
  LET output_seq == quick_test_conv(QT_Input, QT_IN_CHANNELS, QT_Kernel, QT_OUT_CHANNELS)
  IN  /\ vpc = "idle"
      /\ vpc' = "quick_test"
      /\ vcall' = [input |-> QT_Input, kernel |-> QT_Kernel, bias |-> None,
                   dilation |-> 1, padding |-> "causal"]
      /\ vout' = [raised |-> FALSE, output |-> output_seq]
      /\ vfixed' = [input_fixed |-> FixedOf(QT_Input, QT_DEN),
                    output_fixed |-> FixedOf(output_seq, QT_DEN)]
      /\ UNCHANGED <<codecVars, checkerVars, apiVars, mainVars, genVars>>

ConvNext == Compute \/ ScenarioConv \/ QuickTest

(***************************************************************************)
(* The checker and its callers                                             *)
(***************************************************************************)
\* tolerances a checker is constructed with
Tolerances == {0, DEFAULT_TOLERANCE_LSB}

\* raw values handed to compare_values: 1.0, the tolerance boundary, and -1.0
\* as the generator writes it and as 16-bit hardware writes it
RawVals == {0, 256, 258, 259, -256, 65280}

\* output vectors of an RTL sample and of a golden sample
RtlVecs == { <<256>>, <<259>>, <<256, 256>> }
GoldenVecs == { <<256>>, <<258>> }

SeqsUpTo(S, n) == UNION { [1..k -> S] : k \in 0..n }

\* golden vectors compared with themselves: every vector of up to two values
\* out of -1.0, 0 and 1.0, and one of the two ends of the range around 0
SelfVecs == SeqsUpTo({-256, 0, 256}, 2) \cup { <<MinRaw, 0, MaxRaw>> }

\* vectors of equal length whose first and last pairs are out of tolerance
\* and whose middle pair is equal
MixedRtlVec == <<259, 256, 259>>
MixedGoldenVec == <<256, 256, 256>>

\* vectors of one element more than the report details, each pair of
\* elements out of tolerance
LongRtlVec == [i \in 1..(REPORT_LIMIT + 1) |-> 259]
LongGoldenVec == [i \in 1..(REPORT_LIMIT + 1) |-> 256]

NoReport == [total_errors |-> -1]
NoCmp == [loop |-> FALSE, samples_compared |-> 0, sample_errors |-> 0, trace |-> << >>]
NoLast == [op |-> "none"]

\* VerificationChecker(tolerance_lsb=tolerance): lines 15-19
CheckerInit ==
  /\ tolerance_lsb \in Tolerances
  /\ frac_bits = CHECKER_FRAC_BITS
  /\ errors = << >>
  /\ warnings = << >>
  /\ calls = 0
  /\ last = NoLast

MainInit ==
  /\ mpc = "start"
  /\ rtl_results = [samples |-> << >>]
  /\ golden_data = [name |-> ""]
  /\ passed = FALSE
  /\ cmp = NoCmp
  /\ report = NoReport
  /\ exit_status = -1

\* checker.compare_values(rtl_value, golden_value, channel_idx, sample_idx)
CallCompareValues ==
  \E rtl_value \in RawVals, golden_value \in RawVals, channel_idx \in 0..1 :
    LET r == compare_values(errors, tolerance_lsb, rtl_value, golden_value, channel_idx, 0)
    IN  /\ calls < MaxCalls
        /\ calls' = calls + 1
        /\ errors' = r.errors
        /\ last' = [op |-> "compare_values", rtl |-> rtl_value, golden |-> golden_value,
                    before |-> Len(errors), ret |-> r.ret]
        /\ UNCHANGED <<tolerance_lsb, frac_bits, warnings>>
        /\ UNCHANGED <<codecVars, convVars, mainVars, genVars>>

\* checker.compare_vectors(rtl_vector, golden_vector, sample_idx)
CallCompareVectors ==
  \E pair \in ((RtlVecs \cup {LongRtlVec}) \X (GoldenVecs \cup {LongGoldenVec}))
                 \cup { <<v, v>> : v \in SelfVecs }
                 \cup { <<MixedRtlVec, MixedGoldenVec>> } :
    LET rtl_vector == pair[1]
        golden_vector == pair[2]
        r == compare_vectors(errors, tolerance_lsb, rtl_vector, golden_vector, 0)
    IN  /\ calls < MaxCalls
        /\ calls' = calls + 1
        /\ errors' = r.errors
        /\ last' = [op |-> "compare_vectors", rtl |-> rtl_vector, golden |-> golden_vector,
                    before |-> Len(errors), ret |-> r.ret]
        /\ UNCHANGED <<tolerance_lsb, frac_bits, warnings>>
        /\ UNCHANGED <<codecVars, convVars, mainVars, genVars>>

\* the cases handed to compare_test_case directly: an RTL trace of at most
\* one sample without a cycle tag, a golden record of at most one output row
ApiRtlResults == [samples : SeqsUpTo([output : RtlVecs], 1)]
ApiGoldenData == [name : {"simple_temporal_conv"}, output_fixed : SeqsUpTo(GoldenVecs, 1)]

\* cases of two samples of three channels: the first sample fails on two
\* channels, the second passes or fails on one
ApiTwoSampleCases ==
  { << [samples |-> << [output |-> MixedRtlVec], [output |-> v] >>],
       [name |-> "simple_temporal_conv",
        output_fixed |-> <<MixedGoldenVec, MixedGoldenVec>>] >> :
      v \in { MixedGoldenVec, <<256, 256, 259>> } }

\* checker.compare_test_case(rtl_results, golden_data)
CallCompareTestCase ==
  \E case \in (ApiRtlResults \X ApiGoldenData) \cup ApiTwoSampleCases :
    LET rtl == case[1]
        golden == case[2]
        r == compare_test_case(errors, warnings, tolerance_lsb, rtl, golden)
    IN  /\ calls < MaxCalls
        /\ calls' = calls + 1
        /\ errors' = r.errors
        /\ warnings' = r.warnings
        /\ last' = [op |-> "compare_test_case", rtl |-> rtl, golden |-> golden,
                    before |-> Len(errors), ret |-> r.ret, trace |-> r.trace]
        /\ UNCHANGED <<tolerance_lsb, frac_bits>>
        /\ UNCHANGED <<codecVars, convVars, mainVars, genVars>>

\* checker.generate_report(): it reads the checker and writes the file
CallGenerateReport ==
  /\ calls < MaxCalls
  /\ calls' = calls + 1
  /\ last' = [op |-> "generate_report", before |-> Len(errors),
              ret |-> generate_report(errors, warnings, tolerance_lsb)]
  /\ UNCHANGED checkerVars
  /\ UNCHANGED <<codecVars, convVars, mainVars, genVars>>

ApiNext ==
  CallCompareValues \/ CallCompareVectors \/ CallCompareTestCase \/ CallGenerateReport

\* the files main() is pointed at.  An RTL file is missing, or has one of the
\* extensions of lines 83-93; a .json file holds a dict, a .txt file lines
\* "CYCLE: c VALID: v OUTPUT: ..."
RtlSamples ==
  [cycle : 0..MaxCycle, output : RtlVecs] \cup [output : RtlVecs]
RtlJson == {[test_name |-> ""]} \cup [samples : SeqsUpTo(RtlSamples, MaxRtl)]
TxtLines == [cycle : 0..MaxCycle, valid : BOOLEAN, output : {<<256>>}]
RtlFiles ==
  {[exists |-> FALSE, ext |-> ".json"]}
    \cup [exists : {TRUE}, ext : {".vcd", ".bin"}]
    \cup [exists : {TRUE}, ext : {".json"}, content : RtlJson]
    \cup [exists : {TRUE}, ext : {".txt"}, lines : SeqsUpTo(TxtLines, MaxRtl)]

GoldenStreaming ==
  [cycle : 0..MaxCycle, expected_output_fixed : GoldenVecs, valid : {TRUE}]
GoldenJson ==
  {[name |-> "other"]}
    \cup [name : {"streaming_test"}, streaming_samples : SeqsUpTo(GoldenStreaming, MaxGolden)]
    \cup [name : {"simple_temporal_conv"}, output_fixed : SeqsUpTo(GoldenVecs, MaxGolden)]
GoldenFiles == {[exists |-> FALSE]} \cup [exists : {TRUE}, content : GoldenJson]

\* parse_rtl_text_output: the samples of the lines with VALID: 1
parse_rtl_text_output(lines) ==
  [test_name |-> "",
   samples |-> LET keep == SelectSeq(lines, LAMBDA l : l.valid)
               IN  [i \in 1..Len(keep) |-> [cycle |-> keep[i].cycle, output |-> keep[i].output]]]

\* load_rtl_results taking a file of an unsupported format for an empty result
load_rtl_results_any(file) ==
  IF ~file.exists THEN [none |-> TRUE]
  ELSE IF file.ext = ".json" THEN [none |-> FALSE, value |-> file.content]
  ELSE IF file.ext = ".txt" THEN [none |-> FALSE, value |-> parse_rtl_text_output(file.lines)]
  ELSE [none |-> FALSE, value |-> [test_name |-> ""]]

\* load_rtl_results(filepath): none tells that it returned None
load_rtl_results(file) ==
  IF ~file.exists THEN [none |-> TRUE]
  ELSE IF file.ext = ".json" THEN [none |-> FALSE, value |-> file.content]
  ELSE IF file.ext = ".txt" THEN [none |-> FALSE, value |-> parse_rtl_text_output(file.lines)]
  ELSE [none |-> TRUE]

\* main(), lines 285-289
LoadRtl ==
  \E file \in RtlFiles :
    LET loaded == load_rtl_results(file)
    IN  /\ mpc = "start"
        /\ IF loaded.none
           THEN mpc' = "exit" /\ exit_status' = 1 /\ UNCHANGED rtl_results
           ELSE mpc' = "rtl_loaded" /\ rtl_results' = loaded.value /\ UNCHANGED exit_status
        /\ UNCHANGED <<golden_data, passed, cmp, report, checkerVars>>
        /\ UNCHANGED <<codecVars, convVars, apiVars, genVars>>

\* main(), lines 291-293: open() of a missing file raises and ends the run
LoadGolden ==
  \E file \in GoldenFiles :
    /\ mpc = "rtl_loaded"
    /\ IF ~file.exists
       THEN mpc' = "exit" /\ exit_status' = 1 /\ UNCHANGED golden_data
       ELSE mpc' = "golden_loaded" /\ golden_data' = file.content /\ UNCHANGED exit_status
    /\ UNCHANGED <<rtl_results, passed, cmp, report, checkerVars>>
    /\ UNCHANGED <<codecVars, convVars, apiVars, genVars>>

\* main(), line 296
Compare ==
  LET r == compare_test_case(errors, warnings, tolerance_lsb, rtl_results, golden_data)
  IN  /\ mpc = "golden_loaded"
      /\ mpc' = "compared"
      /\ errors' = r.errors
      /\ warnings' = r.warnings
      /\ passed' = r.ret
      /\ cmp' = [loop |-> r.loop, samples_compared |-> r.samples_compared,
                 sample_errors |-> r.sample_errors, trace |-> r.trace]
      /\ UNCHANGED <<tolerance_lsb, frac_bits, rtl_results, golden_data, report, exit_status>>
      /\ UNCHANGED <<codecVars, convVars, apiVars, genVars>>

\* main(), lines 299-311
ReportAndExit ==
  /\ mpc = "compared"
  /\ mpc' = "exit"
  /\ report' = generate_report(errors, warnings, tolerance_lsb)
  /\ exit_status' = IF passed THEN 0 ELSE 1
  /\ UNCHANGED <<rtl_results, golden_data, passed, cmp, checkerVars>>
  /\ UNCHANGED <<codecVars, convVars, apiVars, genVars>>

MainNext == LoadRtl \/ LoadGolden \/ Compare \/ ReportAndExit

(***************************************************************************)
(* Generator session                                                       *)
(***************************************************************************)
Entropy == 0..MaxEntropy

TcnParams ==
  [depth : 0..MaxDepth, kernel_size : 1..MaxKernel, filters : 1..MaxCh,
   input_dimension : 1..MaxCh, seq_length : 1..MaxSeq]
StreamingParams ==
  [seq_length : 1..MaxSeq, input_channels : 1..MaxCh, kernel_size : 1..MaxKernel,
   output_channels : 1..MaxCh]

\* a fresh process: generator seeded from entropy, TemporalConvTestGenerator()
GenInit ==
  /\ np_random \in Entropy
  /\ test_vectors = [simple_case |-> << >>, streaming_test |-> << >>, tcn_block |-> << >>]
  /\ gen_log = << >>

\* a session is one generator call and its repetition with the same
\* arguments, in the same process or in a new one
FirstOrRepeat(op, p) ==
  \/ gen_log = << >>
  \/ Len(gen_log) = 1 /\ gen_log[1].op = op /\ gen_log[1].args = p

GenerateTcnBlockTest ==
  \E p \in TcnParams :
    LET r == generate_tcn_block_test(np_random, p.depth, p.kernel_size, p.filters,
                                     p.input_dimension, p.seq_length)
    IN  /\ FirstOrRepeat("generate_tcn_block_test", p)
        /\ np_random' = r.rng
        /\ test_vectors' = [test_vectors EXCEPT !.tcn_block = r.test_case]
        /\ gen_log' = Append(gen_log, [op |-> "generate_tcn_block_test", args |-> p,
                                       ret |-> r.test_case])
        /\ UNCHANGED <<codecVars, convVars, checkerVars, apiVars, mainVars>>

GenerateStreamingTest ==
  \E p \in StreamingParams :
    LET r == generate_streaming_test(np_random, p.seq_length, p.input_channels,
                                     p.kernel_size, p.output_channels)
    IN  /\ FirstOrRepeat("generate_streaming_test", p)
        /\ np_random' = r.rng
        /\ test_vectors' = [test_vectors EXCEPT !.streaming_test = r.test_case]
        /\ gen_log' = Append(gen_log, [op |-> "generate_streaming_test", args |-> p,
                                       ret |-> r.test_case])
        /\ UNCHANGED <<codecVars, convVars, checkerVars, apiVars, mainVars>>

\* the script is run again: a new process, a new generator object
NewProcess ==
  /\ Len(gen_log) = 1
  /\ np_random' \in Entropy
  /\ np_random' # np_random
  /\ test_vectors' = [simple_case |-> << >>, streaming_test |-> << >>, tcn_block |-> << >>]
  /\ UNCHANGED gen_log
  /\ UNCHANGED <<codecVars, convVars, checkerVars, apiVars, mainVars>>

GenNext == GenerateTcnBlockTest \/ GenerateStreamingTest \/ NewProcess

(***************************************************************************)
(* Specifications                                                          *)
(***************************************************************************)
\* a component a specification does not exercise stays as constructed with
\* its default arguments
CheckerDefault == CheckerInit /\ tolerance_lsb = DEFAULT_TOLERANCE_LSB
GenDefault == GenInit /\ np_random = 0

InitDefault == CodecInit /\ ConvInit /\ CheckerDefault /\ MainInit /\ GenDefault
InitChecker == CodecInit /\ ConvInit /\ CheckerInit /\ MainInit /\ GenDefault
InitGen == CodecInit /\ ConvInit /\ CheckerDefault /\ MainInit /\ GenInit

SpecCodec == InitDefault /\ [][CodecNext]_vars

SpecConv == InitDefault /\ [][ConvNext]_vars

SpecChecker == InitChecker /\ [][ApiNext]_vars

SpecMain == InitDefault /\ [][MainNext]_vars

SpecGen == InitGen /\ [][GenNext]_vars

(***************************************************************************)
(* Codec claims                                                            *)
(***************************************************************************)
\* C1: for every representable x, decoding float_to_fixed(x) with the
\* sign-extending decoder gives a value within half an LSB of x
C1_RoundTrip ==
  (cpc = "decoded" /\ Representable(cx)) => 2 * Abs(cdec * SubLsb - cx) <= SubLsb

\* C2 as stated: float_to_fixed rounds x * 2^frac_bits to the nearest integer,
\* ties away from zero
C2_HalfAwayFromZero ==
  cpc = "encoded" => cenc = round_half_away(cx * (2 ^ FIXED_POINT_FRAC), CodecDen)

\* C2 amended: float_to_fixed returns an integer nearest to x * 2^frac_bits,
\* and when x * 2^frac_bits lies exactly halfway between two integers it
\* returns the even one
C2_NearestTiesToEven ==
  cpc = "encoded" =>
    /\ 2 * Abs(cenc * SubLsb - cx) <= SubLsb
    /\ (2 * Abs(cenc * SubLsb - cx) = SubLsb => cenc % 2 = 0)

\* a halfway case has been encoded on which the two tie rules differ
C2_Witness ==
  /\ cpc = "encoded"
  /\ 2 * Abs(cenc * SubLsb - cx) = SubLsb
  /\ cenc # round_half_away(cx * (2 ^ FIXED_POINT_FRAC), CodecDen)

\* C3: every value float_to_fixed produced and a record stores lies in
\* [-2^(W-1), 2^(W-1)-1]
C3_StoredInRange == cpc # "idle" => (MinRaw <= cenc /\ cenc <= MaxRaw)

(***************************************************************************)
(* Convolution claims                                                      *)
(***************************************************************************)
EffectiveKernelSize(call) == (Len(call.kernel) - 1) * call.dilation + 1

\* C6: under valid padding compute_conv1d_manual raises nothing and returns
\* max(T - effective_kernel_size + 1, 0) rows
C6_ValidLength ==
  (vpc = "computed" /\ vcall.padding = "valid") =>
    /\ ~vout.raised
    /\ Len(vout.output) = Max(Len(vcall.input) - EffectiveKernelSize(vcall) + 1, 0)

\* C7: on the quick_test tensors (identity tap kernel[0,i,i] = 1.0) the causal
\* reference convolution returns output[t] = input[t] for every t, in float
\* and in fixed point
C7_IdentityTap ==
  vpc = "scenario" =>
    /\ ~vout.raised
    /\ vout.output = vcall.input
    /\ vfixed.output_fixed = vfixed.input_fixed

\* C12: under causal padding the output has as many rows as the input, the
\* padded input has T + (K-1)*dilation rows, every read position
\* t + k*dilation lies below that, and the guard leaves out no tap
C12_CausalInRange ==
  (vpc = "computed" /\ vcall.padding = "causal") =>
    LET T == Len(vcall.input)
        K == Len(vcall.kernel)
    IN  /\ ~vout.raised
        /\ Len(vout.output) = T
        /\ vout.padded_rows = T + (K - 1) * vcall.dilation
        /\ \A t \in 0..(T - 1), k \in 0..(K - 1) :
             t + k * vcall.dilation < vout.padded_rows
        /\ vout.skipped = {}

\* a causal convolution with several taps and a dilation above one, whose
\* last output row reads the last padded row
C12_Witness ==
  /\ vpc = "computed" /\ vcall.padding = "causal"
  /\ Len(vcall.kernel) >= 2 /\ vcall.dilation >= 2 /\ Len(vcall.input) >= 2
  /\ vcall.kernel[Len(vcall.kernel)][1][1] # 0
  /\ Len(vout.output) = Len(vcall.input)

\* C19: on every input and kernel, compute_conv1d_manual with causal padding,
\* dilation 1 and no or zero bias returns what the inline convolution of
\* quick_test returns for the same tensors
C19_InlineEquivalent ==
  (/\ vpc \in {"computed", "scenario"}
   /\ vcall.padding = "causal" /\ vcall.dilation = 1
   /\ vcall.bias = None \/ vcall.bias = Zeros(Len(vcall.bias))) =>
    /\ ~vout.raised
    /\ vout.output = quick_test_conv(vcall.input, Len(vcall.kernel[1]), vcall.kernel,
                                     Len(vcall.kernel[1][1]))

(***************************************************************************)
(* Comparator claims                                                       *)
(***************************************************************************)
\* the golden samples and the RTL samples of the run
RunGolden == GoldenSamplesOf(golden_data)
RunRtl == Get(rtl_results, "samples", << >>)

\* golden samples that carry the cycle c
CycleMatches(c) == { g \in 1..Len(RunGolden) : RunGolden[g].cycle = c }

\* compare_test_case was called and reached its sample loop
LoopReached ==
  /\ mpc \in {"compared", "exit"}
  /\ report # NoReport \/ mpc = "compared"
  /\ KnownGoldenFormat(golden_data)
  /\ Len(RunRtl) > 0

\* an RTL sample, by its trace entry e, for which no golden sample exists
NoGoldenFor(e) == CycleMatches(e.rtl_cycle) = {} /\ e.at >= Len(RunGolden)

\* C4: each RTL sample is compared with a golden sample of its own cycle when
\* there is one, and otherwise with the golden sample at the positional index
\* (none when the index is past the golden list)
C4_CycleThenPosition ==
  LoopReached =>
    \A i \in 1..Len(cmp.trace) :
      LET e == cmp.trace[i]
      IN  IF CycleMatches(e.rtl_cycle) # {}
          THEN e.golden \in CycleMatches(e.rtl_cycle)
          ELSE e.golden = (IF e.at < Len(RunGolden) THEN e.at + 1 ELSE 0)

\* every compared sample of the run passed
AllComparedPassed == \A i \in 1..Len(cmp.trace) : cmp.trace[i].golden # 0 => cmp.trace[i].match

\* C5 as stated: a run that got to its comparison exits 0 if and only if
\* every compared sample passed and the error list is empty
C5_ExitIffClean ==
  (mpc = "exit" /\ report # NoReport) =>
    (exit_status = 0 <=> (AllComparedPassed /\ errors = << >>))

\* C5 amended: a run exits 0 if and only if compare_test_case reached its
\* sample loop (known golden layout, at least one RTL sample), every compared
\* sample passed and the error list is empty; otherwise it exits 1.  In a run
\* that reached the loop the error list is empty exactly when every compared
\* sample passed.
C5_ExitStatus ==
  mpc = "exit" =>
    /\ exit_status \in {0, 1}
    /\ exit_status = 0 <=> (LoopReached /\ AllComparedPassed /\ errors = << >>)
    /\ LoopReached => (AllComparedPassed <=> errors = << >>)
    /\ ~LoopReached => errors = << >>

\* a run of two or more compared samples has exited 0
C5_Witness == mpc = "exit" /\ exit_status = 0 /\ cmp.samples_compared >= 2

\* C8: an RTL sample with no golden sample is skipped and leaves one warning
\* in the checker's warnings list, and no error
C8_MissingGoldenWarned ==
  LoopReached =>
    /\ \A i \in 1..Len(cmp.trace) : NoGoldenFor(cmp.trace[i]) => cmp.trace[i].golden = 0
    /\ Len(warnings) = Cardinality({ i \in 1..Len(cmp.trace) : NoGoldenFor(cmp.trace[i]) })

\* C10: compare_values passes exactly when diff_lsb <= tolerance_lsb (256
\* against 258 at tolerance 2 passes with diff_lsb 2, against 259 fails with
\* diff_lsb 3); a failure appends its one record, a pass appends nothing
C10_ToleranceInclusive ==
  last.op = "compare_values" =>
    /\ last.ret.passed <=> last.ret.diff_lsb <= tolerance_lsb
    /\ Len(errors) = last.before + (IF last.ret.passed THEN 0 ELSE 1)
    /\ ~last.ret.passed => errors[Len(errors)] = last.ret
    /\ (tolerance_lsb = 2 /\ last.golden = 256 /\ last.rtl = 258) =>
         (last.ret.diff_lsb = 2 /\ last.ret.passed)
    /\ (tolerance_lsb = 2 /\ last.golden = 256 /\ last.rtl = 259) =>
         (last.ret.diff_lsb = 3 /\ ~last.ret.passed)

\* the boundary case has been compared, after an earlier failure
C10_Witness ==
  /\ last.op = "compare_values"
  /\ tolerance_lsb = 2 /\ last.golden = 256 /\ last.rtl = 258
  /\ last.before = 1

\* a is b or a beginning of b
IsPrefix(a, b) == Len(a) <= Len(b) /\ SubSeq(b, 1, Len(a)) = a

\* C15: whatever method is called on a checker, the error list and the
\* warning list afterwards begin with the lists as they were before: no
\* record is removed, moved or rewritten, and the lists are never reset
C15_ListsOnlyGrow ==
  [][IsPrefix(errors, errors') /\ IsPrefix(warnings, warnings')]_vars

\* a case has been compared and has failed on a checker that already held
\* the error of an earlier call
C15_Witness ==
  /\ last.op = "compare_test_case"
  /\ last.before >= 1
  /\ Len(errors) > last.before

\* C16: generate_report can be called whenever a method can; it leaves
\* tolerance, frac_bits, the error list and the warning list as they were; the
\* report shows the counts and the tolerance of the checker, details the first
\* min(len(errors), 100) errors in order and only counts the others
C16_ReportProjection ==
  /\ [](/\ calls < MaxCalls => ENABLED CallGenerateReport
        /\ last.op = "generate_report" =>
             /\ last.ret.total_errors = Len(errors)
             /\ last.ret.total_warnings = Len(warnings)
             /\ last.ret.tolerance = tolerance_lsb
             /\ Len(last.ret.details) = Min(Len(errors), 100)
             /\ IsPrefix(last.ret.details, errors)
             /\ last.ret.more = Len(errors) - Len(last.ret.details))
  /\ [][(calls' = calls + 1 /\ last'.op = "generate_report") => UNCHANGED checkerVars]_vars

\* a report of a checker that holds more errors than the report details,
\* written after an earlier report
C16_Witness ==
  /\ last.op = "generate_report"
  /\ Len(errors) > 100
  /\ Len(last.ret.details) = 100 /\ last.ret.more >= 1

\* C17: at tolerance 0, compare_vectors of a vector with itself returns True
\* and appends no record
C17_SelfComparePasses ==
  (last.op = "compare_vectors" /\ last.rtl = last.golden /\ tolerance_lsb = 0) =>
    (last.ret /\ Len(errors) = last.before)

\* a vector with a negative, a zero and a positive value has been compared
\* with itself at tolerance 0, on a checker that held an error
C17_Witness ==
  /\ last.op = "compare_vectors" /\ last.rtl = last.golden /\ tolerance_lsb = 0
  /\ \E a, b, c \in 1..Len(last.rtl) :
       last.rtl[a] < 0 /\ last.rtl[b] = 0 /\ last.rtl[c] > 0
  /\ last.before >= 1 /\ last.ret

\* C18: compare_values of a golden value v in [-32768, -1] against the RTL
\* value v + 65536 (its 16-bit pattern) decodes both to the same float, gives
\* diff_lsb = 0 and passes
C18_TwosComplementSame ==
  (/\ last.op = "compare_values"
   /\ MinRaw <= last.golden /\ last.golden <= -1
   /\ last.rtl = last.golden + 2 ^ FIXED_POINT_BITS) =>
    /\ last.ret.rtl_float = last.ret.golden_float
    /\ last.ret.diff_lsb = 0
    /\ last.ret.passed

\* the channels (from 0) on which two vectors of equal length differ by more
\* than the tolerance
FailingChannels(rtl_vector, golden_vector) ==
  { c \in 0..(Len(rtl_vector) - 1) :
      Abs(fixed_to_float(rtl_vector[c + 1]) - fixed_to_float(golden_vector[c + 1]))
        > tolerance_lsb }

\* the records the last call appended
Appended == SubSeq(errors, last.before + 1, Len(errors))

\* the records the last call appended for sample n
AppendedFor(n) ==
  SelectSeq(Appended, LAMBDA r : "sample" \in DOMAIN r /\ r.sample = n)

\* a sequence of per-element records names each channel of the set once, in
\* ascending order
OnePerChannel(records, channels) ==
  /\ Len(records) = Cardinality(channels)
  /\ \A k \in 1..Len(records) : records[k].channel \in channels /\ ~records[k].passed
  /\ \A k \in 1..(Len(records) - 1) : records[k].channel < records[k + 1].channel

\* C21: compare_vectors on vectors of equal length returns True exactly when
\* no element pair is out of tolerance and appends one record per failing
\* channel, whichever channel fails first; compare_test_case visits every RTL
\* sample whether or not an earlier one failed, each compared sample of equal
\* lengths leaving one record per failing channel
C21_EveryMismatchRecorded ==
  /\ (last.op = "compare_vectors" /\ Len(last.rtl) = Len(last.golden)) =>
       /\ last.ret <=> FailingChannels(last.rtl, last.golden) = {}
       /\ Appended = AppendedFor(0)
       /\ OnePerChannel(Appended, FailingChannels(last.rtl, last.golden))
  /\ (last.op = "compare_test_case" /\ Len(last.rtl.samples) > 0) =>
       /\ Len(last.trace) = Len(last.rtl.samples)
       /\ last.ret <=> \A i \in 1..Len(last.trace) :
                         last.trace[i].golden # 0 => last.trace[i].match
       /\ \A i \in 1..Len(last.trace) :
            LET e == last.trace[i]
                rtl_output == last.rtl.samples[i].output
                golden_output == last.golden.output_fixed[e.golden]
            IN  (e.golden # 0 /\ Len(rtl_output) = Len(golden_output)) =>
                  /\ e.match <=> FailingChannels(rtl_output, golden_output) = {}
                  /\ OnePerChannel(AppendedFor(e.at),
                                   FailingChannels(rtl_output, golden_output))

\* a case of two samples: the first failed on its first and last channels,
\* the second was compared all the same and failed on its last channel
C21_Witness ==
  /\ last.op = "compare_test_case"
  /\ Len(last.trace) = 2
  /\ ~last.trace[1].match /\ Len(AppendedFor(0)) = 2
  /\ last.trace[2].golden = 2 /\ ~last.trace[2].match /\ Len(AppendedFor(1)) = 1
  /\ Len(errors) = last.before + 3

\* the output vector of RTL sample i and of golden sample g of the run
RtlOutput(i) == Get(RunRtl[i], "output", << >>)
GoldenOutput(g) ==
  Get(RunGolden[g], "expected_output_fixed", Get(RunGolden[g], "output_fixed", << >>))

\* RTL sample i (trace entry i) was compared with a golden vector of another length
LengthMismatch(i) ==
  /\ cmp.trace[i].golden # 0
  /\ Len(RtlOutput(i)) # Len(GoldenOutput(cmp.trace[i].golden))

\* the records of the error list that are dimension mismatches
DimensionRecords == { j \in 1..Len(errors) : "type" \in DOMAIN errors[j] }

\* C11: a sample whose RTL and golden vectors differ in length fails with
\* exactly one dimension-mismatch record and no per-element record (RTL
\* length 3 against golden length 4 gives that one record and False); every
\* RTL sample of the run is still visited, and a later sample of equal
\* lengths passes exactly when each of its elements is within the tolerance
C11_DimensionMismatch ==
  /\ compare_vectors(<< >>, tolerance_lsb, <<256, 256, 256>>, <<256, 256, 256, 256>>, 0)
       = [errors |-> << [type |-> "dimension_mismatch", rtl_length |-> 3,
                         golden_length |-> 4] >>,
          ret |-> FALSE]
  /\ LoopReached =>
       /\ Len(cmp.trace) = Len(RunRtl)
       /\ \A i \in 1..Len(cmp.trace) :
            LengthMismatch(i) =>
              /\ ~cmp.trace[i].match
              /\ \A j \in 1..Len(errors) :
                   "sample" \in DOMAIN errors[j] => errors[j].sample # cmp.trace[i].at
       /\ Cardinality(DimensionRecords)
            = Cardinality({ i \in 1..Len(cmp.trace) : LengthMismatch(i) })
       /\ \A j \in DimensionRecords :
            \E i \in 1..Len(cmp.trace) :
              /\ LengthMismatch(i)
              /\ errors[j].rtl_length = Len(RtlOutput(i))
              /\ errors[j].golden_length = Len(GoldenOutput(cmp.trace[i].golden))
       /\ \A i \in 1..Len(cmp.trace) :
            (cmp.trace[i].golden # 0 /\ ~LengthMismatch(i)) =>
              (cmp.trace[i].match <=>
                 \A c \in 1..Len(RtlOutput(i)) :
                   Abs(fixed_to_float(RtlOutput(i)[c])
                         - fixed_to_float(GoldenOutput(cmp.trace[i].golden)[c]))
                     <= tolerance_lsb)

\* a run whose first sample had a length mismatch and whose second sample
\* was compared and failed on an element
C11_Witness ==
  /\ LoopReached
  /\ Len(cmp.trace) = 2
  /\ LengthMismatch(1)
  /\ cmp.trace[2].golden # 0 /\ ~LengthMismatch(2) /\ ~cmp.trace[2].match
  /\ Len(errors) = 2

\* main() has called compare_test_case
ComparisonStarted == mpc = "compared" \/ (mpc = "exit" /\ report # NoReport)

\* an RTL file that is missing or has none of the supported extensions
UnloadableRtl(file) == ~file.exists \/ file.ext \notin {".json", ".txt"}

\* C14: compare_test_case starts only from the point where both loads have
\* succeeded; an RTL file that is missing or of an unsupported format does not
\* load; a run that a failed load ended has exit status 1, made no comparison
\* and has an empty error list
C14_LoadsBeforeCompare ==
  /\ \A file \in RtlFiles : UnloadableRtl(file) <=> load_rtl_results(file).none
  /\ [](/\ ~ComparisonStarted => (errors = << >> /\ cmp = NoCmp /\ ~passed)
        /\ (mpc = "exit" /\ ~ComparisonStarted) => exit_status = 1
        /\ mpc \in {"start", "rtl_loaded", "golden_loaded"} => exit_status = -1)
  /\ [][/\ (ComparisonStarted' /\ ~ComparisonStarted) => mpc = "golden_loaded"
        /\ (mpc' = "golden_loaded" /\ mpc # "golden_loaded") =>
             (mpc = "rtl_loaded" /\ golden_data' \in GoldenJson /\ UNCHANGED rtl_results)
        /\ (mpc' = "rtl_loaded" /\ mpc # "rtl_loaded") =>
             /\ mpc = "start"
             /\ \E file \in RtlFiles :
                  /\ ~UnloadableRtl(file)
                  /\ rtl_results' = load_rtl_results(file).value
        /\ (mpc \in {"start", "rtl_loaded"} /\ mpc' = "exit") =>
             (exit_status' = 1 /\ UNCHANGED <<errors, warnings, cmp, report>>)]_vars

\* the RTL trace loaded, the golden file did not, and the run has ended
C14_Witness ==
  /\ mpc = "exit" /\ ~ComparisonStarted
  /\ Len(RunRtl) >= 1
  /\ exit_status = 1 /\ errors = << >>

\* C22: a run whose compare_test_case returned True had a golden sample to
\* compare with, and every golden sample of the case was the one chosen for
\* some RTL sample
C22_PassCoversGolden ==
  (ComparisonStarted /\ passed) =>
    /\ Len(RunGolden) > 0
    /\ \A g \in 1..Len(RunGolden) :
         \E i \in 1..Len(cmp.trace) : cmp.trace[i].golden = g

(***************************************************************************)
(* Generator claims                                                        *)
(***************************************************************************)
\* C13: a streaming record has one sample per time step, in order, with
\* cycle = t for t = 0..seq_length-1, and a sample is valid exactly when
\* cycle >= (kernel_size - 1) * dilation, for the dilation of the convolution
\* that gave the expected outputs
C13_StreamingSamples ==
  \A i \in 1..Len(gen_log) :
    gen_log[i].op = "generate_streaming_test" =>
      LET samples == gen_log[i].ret.streaming_samples
          p == gen_log[i].args
      IN  /\ Len(samples) = p.seq_length
          /\ \A t1 \in 1..Len(samples) :
               /\ samples[t1].cycle = t1 - 1
               /\ samples[t1].valid <=>
                    samples[t1].cycle >= (p.kernel_size - 1) * STREAMING_DILATION

\* a streaming record with a sample before the kernel has filled and one after
C13_Witness ==
  \E i \in 1..Len(gen_log) :
    /\ gen_log[i].op = "generate_streaming_test"
    /\ gen_log[i].args.kernel_size >= 2
    /\ \E a, b \in 1..Len(gen_log[i].ret.streaming_samples) :
         /\ ~gen_log[i].ret.streaming_samples[a].valid
         /\ gen_log[i].ret.streaming_samples[b].valid

\* C20: a TCN block record has exactly 2 * depth layers, two per level, the
\* layers of level L (from 0) with dilation 2^L and conv_idx 0 and 1; when
\* input_dimension differs from filters nothing is added to the output of
\* the last layer
C20_DepthLevels ==
  \A i \in 1..Len(gen_log) :
    gen_log[i].op = "generate_tcn_block_test" =>
      LET layers == gen_log[i].ret.layers
          p == gen_log[i].args
      IN  /\ Len(layers) = 2 * p.depth
          /\ \A j \in 1..Len(layers) :
               /\ layers[j].dilation = 2 ^ ((j - 1) \div 2)
               /\ layers[j].conv_idx = (j - 1) % 2
          /\ (p.input_dimension # p.filters /\ Len(layers) > 0) =>
               gen_log[i].ret.final_output_fixed = layers[Len(layers)].output_fixed

\* C9: two runs of generate_tcn_block_test, or of generate_streaming_test,
\* with the same parameters return identical golden records
C9_Reproducible ==
  \A i \in 1..Len(gen_log), j \in 1..Len(gen_log) :
    (gen_log[i].op = gen_log[j].op /\ gen_log[i].args = gen_log[j].args)
      => gen_log[i].ret = gen_log[j].ret

====
